---- MODULE Spec2Model ----
(***************************************************************************)
(* Room presence and signaling relay of backend/server.py: the            *)
(* ConnectionManager registry, the WebSocket session loop and the HTTP    *)
(* handlers that touch the registry.  The server runs on one asyncio      *)
(* event loop: code between two awaits is atomic, and every await is a    *)
(* point where other tasks may run.  Each action below is one such atomic *)
(* segment of a handler.                                                  *)
(***************************************************************************)
EXTENDS Integers, Sequences, FiniteSets, TLC

\* ------------------------------------------------------------- bounds
MaxTasks    == 3        \* handler invocations in a run: WebSocket connections
                        \* plus HTTP requests
MaxFrames   == 2        \* inbound frames received by the server in a run
MaxCapacity == 2        \* largest max_users a room is created with

Rooms    == {"r1", "r2"}
Users    == {"u1", "u2", "u3"}
Sessions == 1..MaxTasks
Requests == 1..MaxTasks

None  == "None"
DUMMY == [user |-> None, ws |-> 0]   \* a deleted slot of a CPython dict

TargetedTypes == {"webrtc_offer", "webrtc_answer", "ice_candidate"}

VARIABLES
    active_connections, \* room -> dict user -> WebSocket (insertion ordered)
    room_participants,  \* room -> list of user ids
    sess,               \* per WebSocket connection: position of its handler
    chan,               \* per WebSocket: "open" | "closed" (sends fail once closed)
    sends,              \* the send_text calls of the last step, in order
    nframes,            \* inbound frames received so far
    db_rooms,           \* the store's rooms collection: id -> document
    created,            \* room ids ever issued by create_room
    req                 \* per HTTP request: position of its handler

vars == <<active_connections, room_participants, sess, chan, sends, nframes,
          db_rooms, created, req>>
registry == <<active_connections, room_participants>>
store    == <<db_rooms, created>>

\* ------------------------------------------------- dict and list helpers
\* A dict is [id, entries]: entries mirrors CPython's insertion-ordered entry
\* array (a deleted key leaves a DUMMY slot); id tells one dict object from
\* the dict that later replaces it under the same room key.
Live(d) == {i \in 1..Len(d.entries) : d.entries[i] # DUMMY}
Keys(d) == {d.entries[i].user : i \in Live(d)}
Used(d) == Cardinality(Live(d))
SlotOf(d, u) == CHOOSE i \in Live(d) : d.entries[i].user = u
Get(d, u) == d.entries[SlotOf(d, u)].ws
Items(d) == [i \in 1..Len(d.entries) |-> d.entries[i]]

\* d[u] = ws
DictSet(d, u, ws) ==
    IF u \in Keys(d)
    THEN [d EXCEPT !.entries[SlotOf(d, u)] = [user |-> u, ws |-> ws]]
    ELSE [d EXCEPT !.entries = Append(@, [user |-> u, ws |-> ws])]

\* del d[u]
DictDel(d, u) == [d EXCEPT !.entries[SlotOf(d, u)] = DUMMY]

InList(l, u) == \E i \in 1..Len(l) : l[i] = u

\* list.remove(u): drops the first occurrence
ListRemove(l, u) ==
    LET k == CHOOSE i \in 1..Len(l) : l[i] = u /\ \A j \in 1..(i-1) : l[j] # u
    IN  [i \in 1..(Len(l) - 1) |-> IF i < k THEN l[i] ELSE l[i + 1]]

MapPut(f, k, v) == [x \in DOMAIN f \cup {k} |-> IF x = k THEN v ELSE f[x]]
MapDel(f, k)    == [x \in DOMAIN f \ {k} |-> f[x]]

SetMin(S) == CHOOSE x \in S : \A y \in S : x <= y

\* ------------------------------------------------- ConnectionManager
\* connect as it would be without the membership test before the append.
connect_append_always(ac, rp, ws, user_id, room_id) ==
    LET ac1 == IF room_id \notin DOMAIN ac
               THEN MapPut(ac, room_id, [id |-> ws, entries |-> <<>>])
               ELSE ac
        rp1 == IF room_id \notin DOMAIN ac
               THEN MapPut(rp, room_id, <<>>)
               ELSE rp
    IN  [ac |-> [ac1 EXCEPT ![room_id] = DictSet(@, user_id, ws)],
         rp |-> [rp1 EXCEPT ![room_id] = Append(@, user_id)]]

\* connect as it would be if a pair already registered kept its old handle.
connect_keep_old(ac, rp, ws, user_id, room_id) ==
    IF room_id \in DOMAIN ac /\ user_id \in Keys(ac[room_id])
    THEN [ac |-> ac, rp |-> rp]
    ELSE LET ac1 == IF room_id \notin DOMAIN ac
                    THEN MapPut(ac, room_id, [id |-> ws, entries |-> <<>>])
                    ELSE ac
             rp1 == IF room_id \notin DOMAIN ac
                    THEN MapPut(rp, room_id, <<>>)
                    ELSE rp
         IN  [ac |-> [ac1 EXCEPT ![room_id] = DictSet(@, user_id, ws)],
              rp |-> [rp1 EXCEPT ![room_id] = Append(@, user_id)]]

\* disconnect as it would be without the deletion of an emptied room.
disconnect_keep_empty(ac, rp, user_id, room_id) ==
    IF room_id \in DOMAIN ac /\ user_id \in Keys(ac[room_id])
    THEN [ac |-> [ac EXCEPT ![room_id] = DictDel(@, user_id)],
          rp |-> IF InList(rp[room_id], user_id)
                 THEN [rp EXCEPT ![room_id] = ListRemove(@, user_id)]
                 ELSE rp]
    ELSE [ac |-> ac, rp |-> rp]

\* connect(), after websocket.accept() has returned.  Result: the two maps.
connect(ac, rp, ws, user_id, room_id) ==
    LET ac1 == IF room_id \notin DOMAIN ac
               THEN MapPut(ac, room_id, [id |-> ws, entries |-> <<>>])
               ELSE ac
        rp1 == IF room_id \notin DOMAIN ac
               THEN MapPut(rp, room_id, <<>>)
               ELSE rp
    IN  [ac |-> [ac1 EXCEPT ![room_id] = DictSet(@, user_id, ws)],
         rp |-> IF ~InList(rp1[room_id], user_id)
                THEN [rp1 EXCEPT ![room_id] = Append(@, user_id)]
                ELSE rp1]

\* disconnect() as it would be if it dropped the room without looking for
\* the user in it.
disconnect_drop_room(ac, rp, user_id, room_id) ==
    IF room_id \in DOMAIN ac
    THEN [ac |-> MapDel(ac, room_id), rp |-> MapDel(rp, room_id)]
    ELSE [ac |-> ac, rp |-> rp]

\* disconnect() as it would be if it left the member list alone.
disconnect_keep_member(ac, rp, user_id, room_id) ==
    IF room_id \in DOMAIN ac /\ user_id \in Keys(ac[room_id])
    THEN LET ac1 == [ac EXCEPT ![room_id] = DictDel(@, user_id)]
         IN  IF Used(ac1[room_id]) = 0
             THEN [ac |-> MapDel(ac1, room_id), rp |-> MapDel(rp, room_id)]
             ELSE [ac |-> ac1, rp |-> rp]
    ELSE [ac |-> ac, rp |-> rp]

disconnect(ac, rp, user_id, room_id) ==
    IF room_id \in DOMAIN ac /\ user_id \in Keys(ac[room_id])
    THEN LET ac1 == [ac EXCEPT ![room_id] = DictDel(@, user_id)]
             rp1 == IF InList(rp[room_id], user_id)
                    THEN [rp EXCEPT ![room_id] = ListRemove(@, user_id)]
                    ELSE rp
         IN  IF Used(ac1[room_id]) = 0
             THEN [ac |-> MapDel(ac1, room_id), rp |-> MapDel(rp1, room_id)]
             ELSE [ac |-> ac1, rp |-> rp1]
    ELSE [ac |-> ac, rp |-> rp]

\* websocket.send_text(message) on ws: the frame reaches the client (ok)
\* unless the channel is closed, in which case the call raises.
SendOk(ws) == chan[ws] = "open"
send_text(ws, message) == [ws |-> ws, msg |-> message, ok |-> SendOk(ws)]

\* The handle as it would be if the user were looked up in whichever room
\* has a connection of it.
PersonalTarget_any_room(ac, user_id, room_id) ==
    LET r == CHOOSE r \in DOMAIN ac : user_id \in Keys(ac[r])
    IN  Get(ac[r], user_id)

\* send_personal_message: its guard, and the handle the message is sent to.
PersonalFound(ac, user_id, room_id) ==
    room_id \in DOMAIN ac /\ user_id \in Keys(ac[room_id])
PersonalTarget(ac, user_id, room_id) == Get(ac[room_id], user_id)

\* broadcast_to_room: the iterator of "for ... in active_connections[room].items()".
\* used/len/pos are CPython's di_used, len and di_pos.
NoFan == [room |-> None]
NewFan(ac, message, room_id, exclude_user) ==
    [room |-> room_id, id |-> ac[room_id].id, used |-> Used(ac[room_id]),
     len |-> Used(ac[room_id]), pos |-> 0, msg |-> message,
     exclude |-> exclude_user,
     start |-> Keys(ac[room_id]), sent |-> <<>>, dirty |-> FALSE]

\* The dict object an iterator walks: a dict dropped from active_connections
\* had its last key deleted first, so it is empty.
DictOf(ac, it) ==
    IF it.room \in DOMAIN ac /\ ac[it.room].id = it.id
    THEN ac[it.room]
    ELSE [id |-> it.id, entries |-> <<>>]

\* The loop from where it is suspended up to its next send_text, its end, or
\* the RuntimeError the dict iterator raises when the dict changed under it.
IterNext(ac, it) ==
    LET d       == DictOf(ac, it)
        live    == {i \in Live(d) : i > it.pos}
        targets == {i \in live : d.entries[i].user # it.exclude}
    IN  IF Used(d) # it.used THEN [kind |-> "error"]
        ELSE IF targets = {}
        THEN IF Cardinality(live) > it.len
             THEN [kind |-> "error"] ELSE [kind |-> "done"]
        ELSE LET k == SetMin(targets)
                 n == Cardinality({i \in live : i <= k})
             IN  IF n > it.len THEN [kind |-> "error"]
                 ELSE [kind |-> "send", pos |-> k, len |-> it.len - n,
                       user |-> d.entries[k].user, ws |-> d.entries[k].ws]

\* One resumption as it would be without the try/except around send_text.
FanStep_abort(ac, it) ==
    LET nx == IterNext(ac, it)
    IN  IF nx.kind = "send" /\ SendOk(nx.ws)
        THEN [kind |-> "send",
              fan  |-> [it EXCEPT !.pos = nx.pos, !.len = nx.len,
                                  !.sent = Append(@, [user |-> nx.user, ws |-> nx.ws,
                                                      ok |-> TRUE])],
              sends |-> <<send_text(nx.ws, it.msg)>>]
        ELSE IF nx.kind = "send"
        THEN [kind |-> "error", fan |-> NoFan,
              sends |-> <<send_text(nx.ws, it.msg)>>]
        ELSE [kind |-> nx.kind, fan |-> NoFan, sends |-> <<>>]

\* One resumption of a broadcast: [kind, fan, sends].  The bare except
\* swallows a send_text that raises.
FanStep(ac, it) ==
    LET nx == IterNext(ac, it)
    IN  IF nx.kind = "send"
        THEN [kind |-> "send",
              fan  |-> [it EXCEPT !.pos = nx.pos, !.len = nx.len,
                                  !.sent = Append(@, [user |-> nx.user, ws |-> nx.ws,
                                                      ok |-> SendOk(nx.ws)])],
              sends |-> <<send_text(nx.ws, it.msg)>>]
        ELSE [kind |-> nx.kind, fan |-> NoFan, sends |-> <<>>]

\* broadcast_to_room from its call to its first suspension.
broadcast_to_room(ac, message, room_id, exclude_user) ==
    IF room_id \in DOMAIN ac
    THEN FanStep(ac, NewFan(ac, message, room_id, exclude_user))
    ELSE [kind |-> "done", fan |-> NoFan, sends |-> <<>>]

\* A registry change in room_id marks the broadcasts suspended on that room.
Touch(s0, room_id) ==
    [t \in DOMAIN s0 |->
        IF s0[t].fan.room = room_id
        THEN [s0[t] EXCEPT !.fan.dirty = TRUE] ELSE s0[t]]

\* ------------------------------------------------- state
\* left records that an HTTP leave has unregistered this session's connection;
\* seq counts the frames of the session that were sent on to someone.
NewSession == [pc |-> "new", room |-> None, user |-> None, fan |-> NoFan,
               left |-> FALSE, seq |-> 0]
\* The handler has returned and its locals are gone.
Closed == [NewSession EXCEPT !.pc = "closed"]
NewRequest == [pc |-> "new", kind |-> None, room |-> None, user |-> None,
               from |-> None, to |-> None, fan |-> NoFan, status |-> 0]

\* A room document of the store (the fields the handlers read or write).
RoomDoc(participants, max_users) ==
    [participants |-> participants, active_speakers |-> <<>>,
     max_users |-> max_users]

\* The store outlives the process: what earlier create_room and join_room
\* calls can have left in it.
InitStores ==
    {<<>>} \cup
    {[r \in {"r1"} |-> RoomDoc(p, MaxCapacity)] : p \in {<<"u1">>, <<"u1", "u2">>}}

Init ==
    /\ db_rooms \in InitStores
    /\ created = DOMAIN db_rooms
    /\ req = [q \in Requests |-> NewRequest]
    /\ active_connections = <<>>
    /\ room_participants = <<>>
    /\ sess = [s \in Sessions |-> NewSession]
    /\ chan = [s \in Sessions |-> "open"]
    /\ sends = <<>>
    /\ nframes = 0

\* ------------------------------------------------- inbound frames
\* What a client may write on its WebSocket: text that is not JSON, JSON
\* without "type", a targeted type with or without "to_user", anything else.
FrameInputs ==
    {[json |-> FALSE, type |-> None, to_user |-> None],
     [json |-> TRUE,  type |-> None, to_user |-> None],
     [json |-> TRUE,  type |-> "chat", to_user |-> None]}
    \cup [json : {TRUE}, type : TargetedTypes, to_user : Users \cup {None}]

\* json.loads(data), message_data["type"], message_data["to_user"] raise on these.
Malformed(f) ==
    \/ ~f.json
    \/ f.type = None
    \/ f.type \in TargetedTypes /\ f.to_user = None

\* The text received: the client's input, tagged with where and when it came in.
Frame(f, s) == [json |-> f.json, type |-> f.type, to_user |-> f.to_user,
                src |-> s, n |-> sess[s].seq]

Disconnected(user_id) == [type |-> "user_disconnected", user_id |-> user_id]

\* Room ids, user ids and connections are opaque names the code never
\* inspects: they are named in the order in which they first appear.
RoomOrder == <<"r1", "r2">>
UserOrder == <<"u1", "u2", "u3">>
SeenRooms ==
    ({sess[s].room : s \in Sessions} \cup {req[q].room : q \in Requests}
        \cup created) \ {None}
SeenUsers ==
    ({sess[s].user : s \in Sessions}
        \cup UNION {{req[q].user, req[q].from, req[q].to} : q \in Requests}
        \cup UNION {{db_rooms[r].participants[i] :
                        i \in 1..Len(db_rooms[r].participants)} :
                    r \in DOMAIN db_rooms}) \ {None}
Started == Cardinality({s \in Sessions : sess[s].pc # "new"})
           + Cardinality({q \in Requests : req[q].pc # "new"})
Fresh(order, seen, x) ==
    \/ x \in seen
    \/ \E i \in 1..Len(order) :
          /\ order[i] = x
          /\ \A j \in 1..(i - 1) : order[j] \in seen

\* ------------------------------------------------- websocket_endpoint
\* manager.connect(websocket, user_id, room_id), then the first receive_text().
ws_connect(s, room_id, user_id) ==
    /\ sess[s].pc = "new"
    /\ Started < MaxTasks
    /\ \A t \in Sessions : t < s => sess[t].pc # "new"
    /\ Fresh(RoomOrder, SeenRooms, room_id)
    /\ Fresh(UserOrder, SeenUsers, user_id)
    /\ LET m == connect(active_connections, room_participants, s, user_id, room_id)
       IN  /\ active_connections' = m.ac
           /\ room_participants' = m.rp
           /\ sess' = [Touch(sess, room_id) EXCEPT
                          ![s] = [pc |-> "receiving", room |-> room_id,
                                  user |-> user_id, fan |-> NoFan,
                                  left |-> FALSE, seq |-> 0]]
           /\ req' = Touch(req, room_id)
    /\ sends' = <<>>
    /\ UNCHANGED <<chan, nframes, store>>

\* The client goes away; the server learns of it at its next receive or send.
peer_close(s) ==
    /\ sess[s].pc \in {"receiving", "broadcasting", "notifying"}
    /\ chan[s] = "open"
    /\ chan' = [chan EXCEPT ![s] = "closed"]
    /\ sends' = <<>>
    /\ UNCHANGED <<registry, sess, nframes, store, req>>

\* except WebSocketDisconnect: manager.disconnect, then the notification's
\* broadcast up to its first suspension.
OnDisconnect(s, before) ==
    LET room_id == sess[s].room
        user_id == sess[s].user
        m  == disconnect(active_connections, room_participants, user_id, room_id)
        b  == broadcast_to_room(m.ac, Disconnected(user_id), room_id, None)
        s1 == IF m.ac # active_connections THEN Touch(sess, room_id) ELSE sess
    IN  /\ req' = IF m.ac # active_connections THEN Touch(req, room_id) ELSE req
        /\ active_connections' = m.ac
        /\ room_participants' = m.rp
        /\ sends' = before \o b.sends
        /\ sess' = [s1 EXCEPT ![s] =
                       IF b.kind = "send"
                       THEN [s1[s] EXCEPT !.pc = "notifying", !.fan = b.fan]
                       ELSE Closed]
        /\ chan' = IF b.kind = "send" THEN chan ELSE [chan EXCEPT ![s] = "closed"]

\* An exception other than WebSocketDisconnect leaves the handler: nothing is
\* unregistered, and the server closes the connection.
Crash(s) ==
    /\ sess' = [sess EXCEPT ![s].pc = "crashed"]
    /\ chan' = [chan EXCEPT ![s] = "closed"]
    /\ UNCHANGED <<registry, req>>

\* receive_text() raises WebSocketDisconnect.
ws_disconnect(s) ==
    /\ sess[s].pc = "receiving"
    /\ chan[s] = "closed"
    /\ OnDisconnect(s, <<>>)
    /\ UNCHANGED <<nframes, store>>

\* The loop as it would be if it took the next frame while the broadcast of
\* the previous one is still suspended in a send: a targeted frame overtakes.
ws_receive_eager(s, f, raised) ==
    /\ chan[s] = "open"
    /\ nframes < MaxFrames
    /\ nframes' = nframes + 1
    /\ UNCHANGED store
    /\ LET data    == Frame(f, s)
           room_id == sess[s].room
       IN  IF sess[s].pc = "broadcasting"
           THEN /\ ~Malformed(f) /\ f.type \in TargetedTypes
                /\ PersonalFound(active_connections, f.to_user, room_id)
                /\ SendOk(PersonalTarget(active_connections, f.to_user, room_id))
                /\ sends' = <<send_text(PersonalTarget(active_connections,
                                                       f.to_user, room_id), data)>>
                /\ sess' = [sess EXCEPT ![s].seq = @ + 1]
                /\ UNCHANGED <<registry, chan, req>>
           ELSE /\ sess[s].pc = "receiving"
                /\ IF Malformed(f)
                   THEN Crash(s) /\ sends' = <<>>
                   ELSE IF f.type \in TargetedTypes
                   THEN LET found == PersonalFound(active_connections, f.to_user, room_id)
                            ws == PersonalTarget(active_connections, f.to_user, room_id)
                        IN  IF ~found \/ SendOk(ws)
                            THEN /\ sends' = IF ~found THEN <<>>
                                             ELSE <<send_text(ws, data)>>
                                 /\ sess' = IF ~found THEN sess
                                            ELSE [sess EXCEPT ![s].seq = @ + 1]
                                 /\ UNCHANGED <<registry, chan, req>>
                            ELSE IF raised = "WebSocketDisconnect"
                            THEN OnDisconnect(s, <<send_text(ws, data)>>)
                            ELSE Crash(s) /\ sends' = <<send_text(ws, data)>>
                   ELSE LET b == broadcast_to_room(active_connections, data,
                                                   room_id, sess[s].user)
                        IN  /\ sends' = b.sends
                            /\ sess' = [sess EXCEPT ![s] =
                                  IF b.kind = "send"
                                  THEN [@ EXCEPT !.pc = "broadcasting",
                                                 !.fan = b.fan, !.seq = @ + 1]
                                  ELSE [@ EXCEPT !.fan = b.fan]]
                            /\ UNCHANGED <<registry, chan, req>>

\* receive_text() returns a frame: one pass of the loop body up to its first
\* suspension.  raised says which exception a failed send_text raises: the
\* transport's own error, or WebSocketDisconnect.
ws_receive(s, f, raised) ==
    /\ sess[s].pc = "receiving"
    /\ chan[s] = "open"
    /\ nframes < MaxFrames
    /\ nframes' = nframes + 1
    /\ UNCHANGED store
    /\ LET data    == Frame(f, s)
           room_id == sess[s].room
       IN  IF Malformed(f)
           THEN Crash(s) /\ sends' = <<>>
           ELSE IF f.type \in TargetedTypes
           THEN LET found == PersonalFound(active_connections, f.to_user, room_id)
                    ws == PersonalTarget(active_connections, f.to_user, room_id)
                IN  IF ~found \/ SendOk(ws)
                    THEN /\ sends' = IF ~found THEN <<>>
                                     ELSE <<send_text(ws, data)>>
                         /\ sess' = IF ~found THEN sess
                                    ELSE [sess EXCEPT ![s].seq = @ + 1]
                         /\ UNCHANGED <<registry, chan, req>>
                    ELSE IF raised = "WebSocketDisconnect"
                    THEN OnDisconnect(s, <<send_text(ws, data)>>)
                    ELSE Crash(s) /\ sends' = <<send_text(ws, data)>>
           ELSE LET b == broadcast_to_room(active_connections, data, room_id,
                                           sess[s].user)
                IN  /\ sends' = b.sends
                    /\ sess' = [sess EXCEPT ![s] =
                                   IF b.kind = "send"
                                   THEN [@ EXCEPT !.pc = "broadcasting", !.fan = b.fan,
                                                  !.seq = @ + 1]
                                   ELSE [@ EXCEPT !.fan = b.fan]]
                    /\ UNCHANGED <<registry, chan, req>>

\* A broadcast of this session resumes after an awaited send_text.
ws_resume(s) ==
    /\ sess[s].pc \in {"broadcasting", "notifying"}
    /\ LET b == FanStep(active_connections, sess[s].fan)
       IN  /\ sends' = b.sends
           /\ IF b.kind = "send"
              THEN /\ sess' = [sess EXCEPT ![s].fan = b.fan]
                   /\ UNCHANGED chan
              ELSE IF b.kind = "error"
              THEN /\ sess' = [sess EXCEPT ![s].pc = "crashed", ![s].fan = NoFan]
                   /\ chan' = [chan EXCEPT ![s] = "closed"]
              ELSE IF sess[s].pc = "broadcasting"
              THEN /\ sess' = [sess EXCEPT ![s].pc = "receiving", ![s].fan = NoFan]
                   /\ UNCHANGED chan
              ELSE /\ sess' = [sess EXCEPT ![s] = Closed]
                   /\ chan' = [chan EXCEPT ![s] = "closed"]
    /\ UNCHANGED <<registry, nframes, store, req>>

\* ------------------------------------------------- HTTP handlers
\* Each action is one store operation taking effect, followed by the
\* handler's code up to its next await.
ListOf(l) == {l[i] : i \in 1..Len(l)}
Pull(l, u) == SelectSeq(l, LAMBDA x : x # u)                   \* $pull
AddToSet(l, u) == IF u \in ListOf(l) THEN l ELSE Append(l, u)  \* $addToSet
Found(db, room_id) == room_id \in DOMAIN db   \* find_one returns a document
FindOne(db, room_id) == db[room_id]

Relayed(type, from_user) == [type |-> type, from_user |-> from_user]
Joined(user_id, room_id) ==
    [type |-> "user_joined", user |-> user_id, room_id |-> room_id]
Left(user_id, room_id) ==
    [type |-> "user_left", user_id |-> user_id, room_id |-> room_id]
VoiceUpdate(user_id, is_speaking) ==
    [type |-> "voice_status_update", user_id |-> user_id,
     is_speaking |-> is_speaking]

\* The response is sent and the handler's locals are gone.
Respond(r, code) == [NewRequest EXCEPT !.pc = "done", !.kind = r.kind,
                                       !.status = code]

StartRequest(q) ==
    /\ req[q].pc = "new"
    /\ Started < MaxTasks
    /\ \A p \in Requests : p < q => req[p].pc # "new"

\* create_room: insert_one of a room whose id is a new uuid.
create_room(q, room_id, user_id, max_users) ==
    /\ StartRequest(q)
    /\ room_id \notin created
    /\ Fresh(RoomOrder, SeenRooms, room_id)
    /\ Fresh(UserOrder, SeenUsers, user_id)
    /\ db_rooms' = MapPut(db_rooms, room_id, RoomDoc(<<user_id>>, max_users))
    /\ created' = created \cup {room_id}
    /\ req' = [req EXCEPT ![q] = Respond([NewRequest EXCEPT
                    !.kind = "create_room", !.room = room_id,
                    !.user = user_id], 200)]
    /\ sends' = <<>>
    /\ UNCHANGED <<registry, sess, chan, nframes>>

\* The relay endpoint as it would be if it delivered only for a sender that
\* is itself connected to the room.
send_offer_sender_checked(q, type, room_id, from_user, to_user) ==
    /\ StartRequest(q)
    /\ Fresh(RoomOrder, SeenRooms, room_id)
    /\ Fresh(UserOrder, SeenUsers, from_user)
    /\ Fresh(UserOrder, SeenUsers \cup {from_user}, to_user)
    /\ LET found == /\ PersonalFound(active_connections, to_user, room_id)
                    /\ PersonalFound(active_connections, from_user, room_id)
           ws    == PersonalTarget(active_connections, to_user, room_id)
           r     == [NewRequest EXCEPT !.kind = "send_offer", !.room = room_id,
                                       !.from = from_user, !.to = to_user]
       IN  /\ sends' = IF found THEN <<send_text(ws, Relayed(type, from_user))>>
                       ELSE <<>>
           /\ req' = [req EXCEPT ![q] =
                         Respond(r, IF found /\ ~SendOk(ws) THEN 500 ELSE 200)]
    /\ UNCHANGED <<registry, sess, chan, nframes, store>>

\* The relay endpoint as it would be if it rejected an absent recipient.
send_offer_strict(q, type, room_id, from_user, to_user) ==
    /\ StartRequest(q)
    /\ Fresh(RoomOrder, SeenRooms, room_id)
    /\ Fresh(UserOrder, SeenUsers, from_user)
    /\ Fresh(UserOrder, SeenUsers \cup {from_user}, to_user)
    /\ LET found == PersonalFound(active_connections, to_user, room_id)
           ws    == PersonalTarget(active_connections, to_user, room_id)
           r     == [NewRequest EXCEPT !.kind = "send_offer", !.room = room_id,
                                       !.from = from_user, !.to = to_user]
       IN  /\ sends' = IF found THEN <<send_text(ws, Relayed(type, from_user))>>
                       ELSE <<>>
           /\ req' = [req EXCEPT ![q] =
                         Respond(r, IF ~found THEN 404
                                    ELSE IF ~SendOk(ws) THEN 500 ELSE 200)]
    /\ UNCHANGED <<registry, sess, chan, nframes, store>>

\* send_offer, send_answer, send_ice_candidate: the message is built from the
\* body's from_user and sent to the body's to_user; a send_text that raises
\* leaves the handler as a 500.
send_offer(q, type, room_id, from_user, to_user) ==
    /\ StartRequest(q)
    /\ Fresh(RoomOrder, SeenRooms, room_id)
    /\ Fresh(UserOrder, SeenUsers, from_user)
    /\ Fresh(UserOrder, SeenUsers \cup {from_user}, to_user)
    /\ LET found == PersonalFound(active_connections, to_user, room_id)
           ws    == PersonalTarget(active_connections, to_user, room_id)
           r     == [NewRequest EXCEPT !.kind = "send_offer", !.room = room_id,
                                       !.from = from_user, !.to = to_user]
       IN  /\ sends' = IF found THEN <<send_text(ws, Relayed(type, from_user))>>
                       ELSE <<>>
           /\ req' = [req EXCEPT ![q] =
                         Respond(r, IF found /\ ~SendOk(ws) THEN 500 ELSE 200)]
    /\ UNCHANGED <<registry, sess, chan, nframes, store>>

\* A broadcast started by request record r: suspended in it, or over.
\* after is where the handler goes on when the broadcast is over.
Fanout(r, b, after) ==
    IF b.kind = "send" THEN [r EXCEPT !.pc = "fanout", !.fan = b.fan]
    ELSE IF after = "done" THEN Respond(r, 200)
    ELSE [r EXCEPT !.pc = after, !.fan = NoFan]

After(kind) == IF kind = "leave_room" THEN "leave_refind" ELSE "done"

\* update_voice_status: the store's update_one, then the broadcast.  written
\* says whether update_one succeeded; when the driver raises instead, the
\* exception leaves the handler before the broadcast.
update_voice_status(q, room_id, user_id, is_speaking, current_user, written) ==
    /\ StartRequest(q)
    /\ Fresh(RoomOrder, SeenRooms, room_id)
    /\ Fresh(UserOrder, SeenUsers, current_user)
    /\ Fresh(UserOrder, SeenUsers \cup {current_user}, user_id)
    /\ db_rooms' =
          IF written /\ room_id \in DOMAIN db_rooms
          THEN [db_rooms EXCEPT ![room_id].active_speakers =
                   IF is_speaking THEN AddToSet(@, user_id) ELSE Pull(@, user_id)]
          ELSE db_rooms
    /\ LET b == broadcast_to_room(active_connections,
                                  VoiceUpdate(user_id, is_speaking),
                                  room_id, current_user)
           r == [NewRequest EXCEPT !.kind = "update_voice_status",
                                   !.room = room_id, !.user = current_user,
                                   !.from = user_id]
       IN  IF written
           THEN /\ sends' = b.sends
                /\ req' = [req EXCEPT ![q] = Fanout(r, b, "done")]
           ELSE /\ sends' = <<>>
                /\ req' = [req EXCEPT ![q] = Respond(r, 500)]
    /\ UNCHANGED <<registry, sess, chan, nframes, created>>

\* join_room from find_one to the next await.
join_room(q, room_id, current_user) ==
    /\ StartRequest(q)
    /\ Fresh(RoomOrder, SeenRooms, room_id)
    /\ Fresh(UserOrder, SeenUsers, current_user)
    /\ LET room == FindOne(db_rooms, room_id)
           r    == [NewRequest EXCEPT !.kind = "join_room", !.room = room_id,
                                      !.user = current_user]
           b    == broadcast_to_room(active_connections,
                                     Joined(current_user, room_id),
                                     room_id, current_user)
       IN  IF ~Found(db_rooms, room_id)
           THEN req' = [req EXCEPT ![q] = Respond(r, 404)] /\ sends' = <<>>
           ELSE IF Len(room.participants) >= room.max_users
           THEN req' = [req EXCEPT ![q] = Respond(r, 400)] /\ sends' = <<>>
           ELSE IF current_user \notin ListOf(room.participants)
           THEN req' = [req EXCEPT ![q] = [r EXCEPT !.pc = "join_push"]]
                /\ sends' = <<>>
           ELSE req' = [req EXCEPT ![q] = Fanout(r, b, "done")]
                /\ sends' = b.sends
    /\ UNCHANGED <<registry, sess, chan, nframes, store>>

\* join_room: update_one $push takes effect, then the notification.
join_push(q) ==
    /\ req[q].pc = "join_push"
    /\ db_rooms' =
          IF req[q].room \in DOMAIN db_rooms
          THEN [db_rooms EXCEPT ![req[q].room].participants =
                   Append(@, req[q].user)]
          ELSE db_rooms
    /\ LET b == broadcast_to_room(active_connections,
                                  Joined(req[q].user, req[q].room),
                                  req[q].room, req[q].user)
       IN  /\ sends' = b.sends
           /\ req' = [req EXCEPT ![q] = Fanout(req[q], b, "done")]
    /\ UNCHANGED <<registry, sess, chan, nframes, created>>

\* The leave as it would be if it notified the room before unregistering.
LeaveNotify_notify_first(q, r) ==
    LET m  == disconnect(active_connections, room_participants, r.user, r.room)
        b  == broadcast_to_room(active_connections, Left(r.user, r.room),
                                r.room, None)
        q1 == IF m.ac # active_connections THEN Touch(req, r.room) ELSE req
        s1 == IF m.ac # active_connections THEN Touch(sess, r.room) ELSE sess
    IN  /\ active_connections' = m.ac
        /\ room_participants' = m.rp
        /\ sess' = [t \in Sessions |->
                       IF /\ PersonalFound(active_connections, r.user, r.room)
                          /\ PersonalTarget(active_connections, r.user, r.room) = t
                       THEN [s1[t] EXCEPT !.left = TRUE] ELSE s1[t]]
        /\ sends' = b.sends
        /\ req' = [q1 EXCEPT ![q] = Fanout(r, b, "leave_refind")]

\* leave_room: manager.disconnect, then the notification's broadcast.
LeaveNotify(q, r) ==
    LET m  == disconnect(active_connections, room_participants, r.user, r.room)
        b  == broadcast_to_room(m.ac, Left(r.user, r.room), r.room, None)
        q1 == IF m.ac # active_connections THEN Touch(req, r.room) ELSE req
        s1 == IF m.ac # active_connections THEN Touch(sess, r.room) ELSE sess
    IN  /\ active_connections' = m.ac
        /\ room_participants' = m.rp
        /\ sess' = [t \in Sessions |->
                       IF /\ PersonalFound(active_connections, r.user, r.room)
                          /\ PersonalTarget(active_connections, r.user, r.room) = t
                       THEN [s1[t] EXCEPT !.left = TRUE] ELSE s1[t]]
        /\ sends' = b.sends
        /\ req' = [q1 EXCEPT ![q] = Fanout(r, b, "leave_refind")]

\* leave_room from find_one to the next await.
leave_room(q, room_id, current_user) ==
    /\ StartRequest(q)
    /\ Fresh(RoomOrder, SeenRooms, room_id)
    /\ Fresh(UserOrder, SeenUsers, current_user)
    /\ LET room == FindOne(db_rooms, room_id)
           r    == [NewRequest EXCEPT !.kind = "leave_room", !.room = room_id,
                                      !.user = current_user]
       IN  IF ~Found(db_rooms, room_id)
           THEN /\ req' = [req EXCEPT ![q] = Respond(r, 404)]
                /\ sends' = <<>>
                /\ UNCHANGED <<registry, sess>>
           ELSE IF current_user \in ListOf(room.participants)
           THEN /\ req' = [req EXCEPT ![q] = [r EXCEPT !.pc = "leave_pull"]]
                /\ sends' = <<>>
                /\ UNCHANGED <<registry, sess>>
           ELSE LeaveNotify(q, r)
    /\ UNCHANGED <<chan, nframes, store>>

\* leave_room: update_one $pull takes effect, then disconnect and notify.
leave_pull(q) ==
    /\ req[q].pc = "leave_pull"
    /\ db_rooms' =
          IF req[q].room \in DOMAIN db_rooms
          THEN [db_rooms EXCEPT
                   ![req[q].room].participants = Pull(@, req[q].user),
                   ![req[q].room].active_speakers = Pull(@, req[q].user)]
          ELSE db_rooms
    /\ LeaveNotify(q, req[q])
    /\ UNCHANGED <<chan, nframes, created>>

\* leave_room: the second find_one returns; updated_room["participants"]
\* raises when the room is gone.
leave_refind(q) ==
    /\ req[q].pc = "leave_refind"
    /\ LET updated_room == FindOne(db_rooms, req[q].room)
       IN  req' = [req EXCEPT ![q] =
                     IF ~Found(db_rooms, req[q].room) THEN Respond(@, 500)
                     ELSE IF Len(updated_room.participants) = 0
                     THEN [@ EXCEPT !.pc = "leave_delete"]
                     ELSE Respond(@, 200)]
    /\ sends' = <<>>
    /\ UNCHANGED <<registry, sess, chan, nframes, store>>

\* leave_room: delete_one takes effect.
leave_delete(q) ==
    /\ req[q].pc = "leave_delete"
    /\ db_rooms' = MapDel(db_rooms, req[q].room)
    /\ req' = [req EXCEPT ![q] = Respond(@, 200)]
    /\ sends' = <<>>
    /\ UNCHANGED <<registry, sess, chan, nframes, created>>

\* A broadcast of this request resumes after an awaited send_text.
http_resume(q) ==
    /\ req[q].pc = "fanout"
    /\ LET b == FanStep(active_connections, req[q].fan)
       IN  /\ sends' = b.sends
           /\ req' = [req EXCEPT ![q] =
                         IF b.kind = "error" THEN Respond(@, 500)
                         ELSE Fanout(@, b, After(@.kind))]
    /\ UNCHANGED <<registry, sess, chan, nframes, store>>

\* The WebSocket endpoint, the /webrtc/* relay endpoints and /voice/status,
\* on a store without rooms (where update_one matches nothing).
Next ==
    \/ \E s \in Sessions : sess[s].pc = "new" /\
          \E r \in Rooms, u \in Users : ws_connect(s, r, u)
    \/ \E s \in Sessions : peer_close(s)
    \/ \E s \in Sessions : ws_disconnect(s)
    \/ \E s \in Sessions : sess[s].pc \in {"receiving", "broadcasting"} /\
          \E f \in FrameInputs, x \in {"WebSocketDisconnect", "RuntimeError"} :
             ws_receive(s, f, x)
    \/ \E s \in Sessions : ws_resume(s)
    \/ \E q \in Requests : StartRequest(q) /\
          \E ty \in TargetedTypes, r \in Rooms, u, v \in Users :
             send_offer(q, ty, r, u, v)
    \/ \E q \in Requests : StartRequest(q) /\
          \E r \in Rooms, u, v \in Users, b, w \in BOOLEAN :
             update_voice_status(q, r, u, b, v, w)
    \/ \E q \in Requests : http_resume(q)

\* A deployment whose store holds no room yet.
InitEmpty == Init /\ db_rooms = <<>>

Spec == InitEmpty /\ [][Next]_vars

\* The connection lifecycle and the room endpoints over the store.
NextRooms ==
    \/ \E s \in Sessions : sess[s].pc = "new" /\
          \E r \in Rooms, u \in Users : ws_connect(s, r, u)
    \/ \E s \in Sessions : peer_close(s)
    \/ \E s \in Sessions : ws_disconnect(s)
    \/ \E s \in Sessions : ws_resume(s)
    \/ \E q \in Requests : StartRequest(q) /\
          \E r \in Rooms, u \in Users, n \in 1..MaxCapacity :
             create_room(q, r, u, n)
    \/ \E q \in Requests : StartRequest(q) /\
          \E r \in Rooms, u, v \in Users, b, w \in BOOLEAN :
             update_voice_status(q, r, u, b, v, w)
    \/ \E q \in Requests : StartRequest(q) /\
          \E r \in Rooms, u \in Users : join_room(q, r, u)
    \/ \E q \in Requests : join_push(q)
    \/ \E q \in Requests : StartRequest(q) /\
          \E r \in Rooms, u \in Users : leave_room(q, r, u)
    \/ \E q \in Requests : leave_pull(q)
    \/ \E q \in Requests : leave_refind(q)
    \/ \E q \in Requests : leave_delete(q)
    \/ \E q \in Requests : http_resume(q)

SpecRooms == Init /\ [][NextRooms]_vars

\* Inbound frames in a run that also has leave requests.
MaxLeaveFrames == 1

\* The connection lifecycle with its frames, and the leave endpoint.
NextLeave ==
    \/ \E s \in Sessions : sess[s].pc = "new" /\
          \E r \in Rooms, u \in Users : ws_connect(s, r, u)
    \/ \E s \in Sessions : peer_close(s)
    \/ \E s \in Sessions : ws_disconnect(s)
    \/ \E s \in Sessions : sess[s].pc \in {"receiving", "broadcasting"} /\
          nframes < MaxLeaveFrames /\
          \E f \in FrameInputs, x \in {"WebSocketDisconnect", "RuntimeError"} :
             ws_receive(s, f, x)
    \/ \E s \in Sessions : ws_resume(s)
    \/ \E q \in Requests : StartRequest(q) /\
          \E r \in Rooms, u \in Users : leave_room(q, r, u)
    \/ \E q \in Requests : leave_pull(q)
    \/ \E q \in Requests : leave_refind(q)
    \/ \E q \in Requests : leave_delete(q)
    \/ \E q \in Requests : http_resume(q)

\* A deployment whose store holds one room, created by its only participant.
InitLeave == Init /\ db_rooms = [r \in {"r1"} |-> RoomDoc(<<"u1">>, MaxCapacity)]

SpecLeave == InitLeave /\ [][NextLeave]_vars

\* ================================================= claims
\* The users with a live slot in room r's connection dict, read off the raw
\* entries.
Registered(ac, r) ==
    IF r \in DOMAIN ac
    THEN {ac[r].entries[i].user : i \in 1..Len(ac[r].entries)} \ {None}
    ELSE {}
\* The slots of room r's dict that hold user u.
SlotsOf(ac, r, u) ==
    IF r \in DOMAIN ac
    THEN {i \in 1..Len(ac[r].entries) : ac[r].entries[i].user = u}
    ELSE {}
HandleOf(ac, r, u) == ac[r].entries[CHOOSE i \in SlotsOf(ac, r, u) : TRUE].ws
Count(l, u) == Cardinality({i \in 1..Len(l) : l[i] = u})

\* C1: in every reachable state a room is a key of active_connections iff it
\* is a key of room_participants iff at least one connection is registered
\* in it: no room entry with an empty connection map is left behind by a
\* connect, a disconnect or an HTTP leave.
C1_RoomEntryIffConnected ==
    \A r \in Rooms :
        /\ (r \in DOMAIN active_connections) = (r \in DOMAIN room_participants)
        /\ (r \in DOMAIN active_connections) = (Registered(active_connections, r) # {})

\* A leave has emptied and removed the room of a session that is still
\* open, after another session was closed by its disconnect.
C1_Witness ==
    \E q \in Requests, s, t \in Sessions :
        /\ req[q].pc = "leave_refind"
        /\ sess[s].pc = "receiving"
        /\ sess[s].room = req[q].room /\ sess[s].user = req[q].user
        /\ req[q].room \notin DOMAIN active_connections
        /\ sess[t].pc = "closed"

\* C2: registering a (room, user) pair that is already registered leaves one
\* handle for the pair, the one registered last, and the user once in the
\* room's member list; a handle that was replaced is sent nothing while the
\* newer one is registered.
C2_ConnectStep(s) ==
    (sess[s].pc = "new" /\ sess'[s].pc = "receiving") =>
        LET r == sess'[s].room
            u == sess'[s].user
        IN  /\ Cardinality(SlotsOf(active_connections', r, u)) = 1
            /\ HandleOf(active_connections', r, u) = s
            /\ Count(room_participants'[r], u) = 1
C2_Replaced(s) ==
    /\ sess[s].room # None
    /\ SlotsOf(active_connections, sess[s].room, sess[s].user) # {}
    /\ HandleOf(active_connections, sess[s].room, sess[s].user) # s
C2_OneHandlePerPair ==
    /\ \A r \in DOMAIN active_connections : \A u \in Users :
           /\ Cardinality(SlotsOf(active_connections, r, u)) <= 1
           /\ Count(room_participants[r], u) <= 1
    /\ \A s \in Sessions : C2_Replaced(s) =>
           \A i \in 1..Len(sends) : sends[i].ws # s
C2_LatestHandleWins ==
    /\ []C2_OneHandlePerPair
    /\ [][\A s \in Sessions : C2_ConnectStep(s)]_vars

\* A second connection has replaced the first one of its pair, and a
\* message for the pair's user has just been sent to the second.
C2_Witness ==
    \E s, t \in Sessions :
        /\ s # t /\ C2_Replaced(s)
        /\ sess[t].room = sess[s].room /\ sess[t].user = sess[s].user
        /\ Len(sends) = 1 /\ sends[1].ws = t /\ sends[1].ok

\* The broadcasts in progress, one record per task suspended in one.
Fans == {sess[s].fan : s \in Sessions} \cup {req[q].fan : q \in Requests}
SentUsers(it) == {it.sent[i].user : i \in 1..Len(it.sent)}
\* Task s (a session) or q (a request) ends its broadcast normally in this step.
SessFanEnds(s) ==
    /\ sess[s].pc \in {"broadcasting", "notifying"}
    /\ sess'[s].pc \in {"receiving", "closed"}
ReqFanEnds(q) ==
    /\ req[q].pc = "fanout"
    /\ req'[q].pc = "leave_refind" \/ (req'[q].pc = "done" /\ req'[q].status = 200)
\* Every member the broadcast started with, other than the excluded user,
\* that is still registered in the room has been sent the message.
SentAll(it) ==
    \A u \in it.start \ {it.exclude} :
        u \in Registered(active_connections, it.room) => u \in SentUsers(it)

\* C3: a broadcast to a room with N registered members and excluded user U
\* sends the message once to each member other than U and never to U: when
\* the broadcast is over, however it ended, every member it started with
\* that is still registered, U apart, has been sent the message, no handle
\* twice.
C3_NeverExcluded ==
    /\ \A it \in Fans : it.room # None =>
           /\ \A i \in 1..Len(it.sent) : it.sent[i].user # it.exclude
           /\ \A i, j \in 1..Len(it.sent) :
                  it.sent[i].ws = it.sent[j].ws => i = j
    /\ \A i \in 1..Len(sends) :
           sends[i].msg.type = "chat" =>
               sess[sends[i].ws].user # sess[sends[i].msg.src].user
C3_BroadcastRecipients ==
    /\ []C3_NeverExcluded
    /\ [][/\ \A s \in Sessions :
             (sess[s].fan.room # None /\ sess'[s].fan.room = None)
                => SentAll(sess[s].fan)
          /\ \A q \in Requests :
             (req[q].fan.room # None /\ req'[q].fan.room = None)
                => SentAll(req[q].fan)]_vars

\* C4: handling an offer, answer or ICE candidate frame received on a
\* session of room R whose to_user is registered in R sends the unmodified
\* original to the handle registered for to_user in R, and nothing else is
\* delivered to any handle.
C4_Step(s, f, x) ==
    LET r == sess[s].room IN
    (/\ f.json /\ f.type \in TargetedTypes /\ f.to_user # None
     /\ SlotsOf(active_connections, r, f.to_user) # {}
     /\ ws_receive(s, f, x))
    => LET h    == HandleOf(active_connections, r, f.to_user)
           data == Frame(f, s)
       IN  /\ Len(sends') >= 1
           /\ sends'[1] = [ws |-> h, msg |-> data, ok |-> chan[h] = "open"]
           /\ \A i \in 2..Len(sends') : ~sends'[i].ok
C4_TargetedDelivery ==
    [][nframes' # nframes =>
         \A s \in Sessions : sess[s].pc = "receiving" =>
            \A f \in FrameInputs, x \in {"WebSocketDisconnect", "RuntimeError"} :
               C4_Step(s, f, x)]_vars

\* C5: a targeted relay whose to_user has no registered handle in the room
\* is a no-op: nothing is sent, the registry and the session are unchanged,
\* and the /webrtc/* caller gets its 200 acknowledgment.
C5_NoOp ==
    /\ sends' = <<>>
    /\ UNCHANGED <<active_connections, room_participants, sess, chan>>
C5_Acknowledged(q) == req'[q].pc = "done" /\ req'[q].status = 200
\* What the step sends first, if it sends, is message m: a relay sends the
\* message it is given before anything else, so a step that starts with
\* another message is not the relay of m.
C5_Carries(m) == Len(sends') = 0 \/ sends'[1].msg = m
C5_WsStep(s, f, x) ==
    (/\ f.json /\ f.type \in TargetedTypes /\ f.to_user # None
     /\ SlotsOf(active_connections, sess[s].room, f.to_user) = {}
     /\ C5_Carries(Frame(f, s))
     /\ ws_receive(s, f, x))
    => C5_NoOp
C5_HttpStep(q, ty, r, u, v) ==
    (/\ SlotsOf(active_connections, r, v) = {}
     /\ C5_Carries(Relayed(ty, u))
     /\ send_offer(q, ty, r, u, v))
    => (C5_NoOp /\ C5_Acknowledged(q))
\* A step that is a no-op satisfies every instance, so only the other steps
\* are matched against the handlers.
C5_AbsentTargetNoOp ==
    [][/\ (nframes' # nframes /\ ~C5_NoOp) =>
             \A s \in Sessions : sess[s].pc = "receiving" =>
                \A f \in FrameInputs, x \in {"WebSocketDisconnect", "RuntimeError"} :
                   C5_WsStep(s, f, x)
       /\ \A q \in Requests :
             (/\ req[q].pc = "new" /\ req'[q].kind = "send_offer"
              /\ ~(C5_NoOp /\ C5_Acknowledged(q))) =>
                \A ty \in TargetedTypes, r \in Rooms, u, v \in Users :
                   C5_HttpStep(q, ty, r, u, v)]_vars

\* A relay request was acknowledged with 200 while no connection had ever
\* been registered, and nothing was sent.
C5_Witness ==
    /\ \E q \in Requests :
          req[q].pc = "done" /\ req[q].kind = "send_offer" /\ req[q].status = 200
    /\ sends = <<>>
    /\ active_connections = <<>>
    /\ \A s \in Sessions : sess[s].pc = "new"

ListSet(l) == {l[i] : i \in 1..Len(l)}
Members(rp, r) == IF r \in DOMAIN rp THEN ListSet(rp[r]) ELSE {}

\* C6: when receive_text raises WebSocketDisconnect on a registered session,
\* the user is removed from the registry first, the member list is then
\* exactly the remaining members, and one user_disconnected notice carrying
\* the user's id is sent to every member still registered and to nobody
\* else, never to the closed handle.
C6_DisconnectStep(s) ==
    LET r == sess[s].room
        u == sess[s].user
    IN  (/\ sess[s].pc = "receiving" /\ chan[s] = "closed"
         /\ sess'[s].pc \in {"notifying", "closed"}
         /\ SlotsOf(active_connections, r, u) # {}
         /\ HandleOf(active_connections, r, u) = s)
        => /\ Registered(active_connections', r) = Registered(active_connections, r) \ {u}
           /\ Members(room_participants', r) = Registered(active_connections, r) \ {u}
           /\ \A i \in 1..Len(sends') :
                 sends'[i].msg = Disconnected(u) /\ sends'[i].ws # s
           /\ IF Registered(active_connections', r) = {}
              THEN sess'[s].pc = "closed" /\ sends' = <<>>
              ELSE /\ sess'[s].pc = "notifying"
                   /\ sess'[s].fan.start = Registered(active_connections', r)
                   /\ sess'[s].fan.msg = Disconnected(u)
                   /\ Len(sends') = 1
C6_Notifying ==
    \A s \in Sessions : sess[s].pc = "notifying" =>
        /\ sess[s].fan.exclude = None
        /\ \A i \in 1..Len(sess[s].fan.sent) : sess[s].fan.sent[i].ws # s
        /\ \A i, j \in 1..Len(sess[s].fan.sent) :
              sess[s].fan.sent[i].user = sess[s].fan.sent[j].user => i = j
C6_DisconnectNotifiesRemaining ==
    /\ []C6_Notifying
    /\ [][\A s \in Sessions :
            /\ C6_DisconnectStep(s)
            /\ (sess[s].pc = "notifying" /\ sess'[s].pc # "notifying")
               => SentAll(sess[s].fan)]_vars

\* C7: unregistering the sole registered member of a room removes the room
\* from both maps; unregistering one of several leaves the room in both
\* maps, the member list being exactly the remaining members, each still
\* resolving to the handle it had.
C7_Unregistered(r, u) ==
    (u \in Registered(active_connections, r)
     /\ u \notin Registered(active_connections', r))
    => LET rest == Registered(active_connections, r) \ {u}
       IN  IF rest = {}
           THEN r \notin DOMAIN active_connections'
                /\ r \notin DOMAIN room_participants'
           ELSE /\ r \in DOMAIN active_connections'
                /\ r \in DOMAIN room_participants'
                /\ Registered(active_connections', r) = rest
                /\ ListSet(room_participants'[r]) = rest
                /\ Len(room_participants'[r]) = Cardinality(rest)
                /\ \A v \in rest :
                      /\ Cardinality(SlotsOf(active_connections', r, v)) = 1
                      /\ HandleOf(active_connections', r, v)
                            = HandleOf(active_connections, r, v)
C7_DisconnectRoomCleanup ==
    [][\A r \in Rooms, u \in Users : C7_Unregistered(r, u)]_vars

\* One of two members has been unregistered and the room is still there
\* with the other, while another room has gone with its only member.
C7_Witness ==
    \E s, t \in Sessions :
        /\ sess[s].pc = "notifying"
        /\ sess[s].room \in DOMAIN active_connections
        /\ room_participants[sess[s].room] # <<>>
        /\ sess[t].pc = "closed"
        /\ Cardinality(DOMAIN active_connections) = 1

\* C8: in every reachable state the users registered in a room are among
\* the participants the store holds for that room, and the room has a
\* registry entry iff some user is registered in it.
C8_RegisteredSubsetOfStore ==
    \A r \in Rooms :
        /\ Registered(active_connections, r)
              \subseteq (IF r \in DOMAIN db_rooms
                         THEN ListSet(db_rooms[r].participants) ELSE {})
        /\ (r \in DOMAIN active_connections)
              = (Registered(active_connections, r) # {})

\* C9: a send that raises inside a broadcast is swallowed: the broadcast
\* goes on to the remaining members, each send to an open channel is
\* delivered, the broadcasting session stays in its receive loop and a
\* request gets its normal response.  (Stated of a broadcast during which
\* the room's connection map is not changed.)
C9_SessionStep(s) ==
    /\ (sess[s].pc = "broadcasting" /\ ~sess[s].fan.dirty)
       => sess'[s].pc \in {"broadcasting", "receiving"}
    /\ (sess[s].pc = "broadcasting" /\ sess'[s].pc = "broadcasting"
        /\ Len(sess'[s].fan.sent) > Len(sess[s].fan.sent))
       => LET e == sess'[s].fan.sent[Len(sess'[s].fan.sent)]
          IN  sends' = <<[ws |-> e.ws, msg |-> sess[s].fan.msg,
                          ok |-> chan[e.ws] = "open"]>>
    /\ (SessFanEnds(s) /\ ~sess[s].fan.dirty
        /\ \E i \in 1..Len(sess[s].fan.sent) : ~sess[s].fan.sent[i].ok)
       => SentUsers(sess[s].fan) = sess[s].fan.start \ {sess[s].fan.exclude}
C9_RequestStep(q) ==
    /\ (req[q].pc = "fanout" /\ ~req[q].fan.dirty)
       => (req'[q].pc = "fanout" \/ ReqFanEnds(q))
    /\ (ReqFanEnds(q) /\ ~req[q].fan.dirty
        /\ \E i \in 1..Len(req[q].fan.sent) : ~req[q].fan.sent[i].ok)
       => SentUsers(req[q].fan) = req[q].fan.start \ {req[q].fan.exclude}
C9_SendFailureSwallowed ==
    [][/\ \A s \in Sessions : C9_SessionStep(s)
       /\ \A q \in Requests : C9_RequestStep(q)]_vars

\* A chat broadcast whose first send raised has delivered to the next member.
C9_Witness ==
    \E s \in Sessions :
        /\ sess[s].pc = "broadcasting" /\ ~sess[s].fan.dirty
        /\ Len(sess[s].fan.sent) = 2
        /\ ~sess[s].fan.sent[1].ok /\ sess[s].fan.sent[2].ok

\* C10: a broadcast suspended in its fan-out does not fail when a connection
\* of its room is registered or unregistered meanwhile: the broadcasting
\* session does not crash and the broadcasting request does not fail.
C10_BroadcastSurvivesRegistryChange ==
    [][/\ \A s \in Sessions :
             sess[s].pc \in {"broadcasting", "notifying"}
                => sess'[s].pc # "crashed"
       /\ \A q \in Requests :
             req[q].pc = "fanout" => ~(req'[q].pc = "done" /\ req'[q].status = 500)]_vars

\* The handles held in the registry, read off the raw entries.
HandlesIn(ac) ==
    UNION {{ac[r].entries[i].ws : i \in 1..Len(ac[r].entries)} : r \in DOMAIN ac}
      \ {0}

\* C11: a frame that is not JSON, has no type, or is a targeted type without
\* to_user is ignored: handling it sends nothing, changes neither the
\* registry nor the session, and leaves the connection open for later frames.
C11_Step(s, f, x) ==
    (Malformed(f) /\ ws_receive(s, f, x))
    => /\ sends' = <<>>
       /\ UNCHANGED <<active_connections, room_participants>>
       /\ sess'[s] = sess[s]
       /\ chan'[s] = "open"
C11_MalformedFrameIgnored ==
    [][nframes' # nframes =>
         \A s \in Sessions : sess[s].pc = "receiving" =>
            \A f \in FrameInputs, x \in {"WebSocketDisconnect", "RuntimeError"} :
               C11_Step(s, f, x)]_vars

\* C12: when the send to the target's handle fails during a targeted relay,
\* the sending session stays in its receive loop with its connection open
\* and its registration intact, and no user_disconnected notice is sent for
\* the sender.
C12_Step(s, f, x) ==
    LET r == sess[s].room IN
    (/\ f.json /\ f.type \in TargetedTypes /\ f.to_user # None
     /\ SlotsOf(active_connections, r, f.to_user) # {}
     /\ chan[HandleOf(active_connections, r, f.to_user)] = "closed"
     /\ ws_receive(s, f, x))
    => /\ sess'[s] = sess[s]
       /\ chan'[s] = "open"
       /\ UNCHANGED <<active_connections, room_participants>>
       /\ \A i \in 1..Len(sends') : sends'[i].msg # Disconnected(sess[s].user)
C12_RelayFailureNotFatal ==
    [][nframes' # nframes =>
         \A s \in Sessions : sess[s].pc = "receiving" =>
            \A f \in FrameInputs, x \in {"WebSocketDisconnect", "RuntimeError"} :
               C12_Step(s, f, x)]_vars

\* C13: no session terminates while leaving its own handle registered: the
\* handle of a session whose handler has ended is in no room's connection
\* map.
C13_NoHandleLeftBehind ==
    \A s \in Sessions :
        sess[s].pc \in {"closed", "crashed"} => s \notin HandlesIn(active_connections)

\* The handle a suspended broadcast is waiting on: its latest send_text.
Awaited(it) == it.sent[Len(it.sent)].ws
InFlight == {it \in Fans : it.room # None}

\* C16: sends to one handle are serialized: no two tasks are suspended at
\* the same time in a send_text on the same handle.
C16_OneSendInFlightPerHandle ==
    \A a, b \in InFlight : Awaited(a) = Awaited(b) => a = b

\* C17: concurrent joins and leaves never leave more participants in a
\* room's stored list than its max_users, and a rejected join (404 for a
\* missing room, 400 for a full one) leaves the store unchanged.
C17_Rejected(q) ==
    (/\ req[q].pc = "new" /\ req'[q].kind = "join_room"
     /\ req'[q].pc = "done" /\ req'[q].status \in {400, 404})
    => UNCHANGED <<db_rooms, created>>
C17_CapacityRespected ==
    /\ [](\A r \in DOMAIN db_rooms :
            Len(db_rooms[r].participants) <= db_rooms[r].max_users)
    /\ [][\A q \in Requests : C17_Rejected(q)]_vars

\* C19: a voice-status update writes the store first (the user joins the
\* room's active speakers when is_speaking, leaves them otherwise) and then
\* broadcasts voice_status_update to the room, the caller excluded; a store
\* write that fails neither prevents the broadcast nor fails the request.
C19_Step(q, r, u, b, v, w) ==
    update_voice_status(q, r, u, b, v, w)
    => /\ (w /\ r \in DOMAIN db_rooms) =>
             (b = (u \in ListSet(db_rooms'[r].active_speakers)))
       /\ IF Registered(active_connections, r) \ {v} = {}
          THEN sends' = <<>>
          ELSE /\ Len(sends') = 1
               /\ sends'[1].msg = [type |-> "voice_status_update",
                                   user_id |-> u, is_speaking |-> b]
               /\ sess[sends'[1].ws].user # v
       /\ ~(req'[q].pc = "done" /\ req'[q].status = 500)
C19_VoiceStatusBestEffortStore ==
    [][\A q \in Requests :
         (req[q].pc = "new" /\ req'[q].kind = "update_voice_status") =>
            \A r \in Rooms, u, v \in Users, b, w \in BOOLEAN :
               C19_Step(q, r, u, b, v, w)]_vars

\* A leave of room r that has started and not yet returned.
LeaveInProgress(r) ==
    \E q \in Requests :
        /\ req[q].kind = "leave_room" /\ req[q].room = r
        /\ req[q].pc \in {"fanout", "leave_refind", "leave_delete"}

\* C20: a room whose stored participant list a leave has emptied is deleted
\* from the store before that leave returns, and a room whose participant
\* list is not empty is not deleted.
C20_NoEmptyRoomKept ==
    \A r \in DOMAIN db_rooms :
        Len(db_rooms[r].participants) = 0 => LeaveInProgress(r)
C20_OnlyEmptyRoomDeleted ==
    \A r \in DOMAIN db_rooms :
        r \notin DOMAIN db_rooms' => Len(db_rooms[r].participants) = 0
C20_EmptyRoomDeletedOnLeave ==
    /\ []C20_NoEmptyRoomKept
    /\ [][C20_OnlyEmptyRoomDeleted]_vars

\* What the start of a notification's broadcast by request q looks like:
\* nothing is sent when room r has no registered user other than excl,
\* otherwise the request is suspended in a broadcast of msg over the users
\* registered in r, and msg goes to the handle of one of them, not excl's.
C18_Started(q, r, excl, msg) ==
    IF Registered(active_connections', r) \ {excl} = {}
    THEN sends' = <<>> /\ req'[q].pc # "fanout"
    ELSE /\ req'[q].pc = "fanout"
         /\ req'[q].fan.start = Registered(active_connections', r)
         /\ req'[q].fan.exclude = excl
         /\ req'[q].fan.msg = msg
         /\ Len(sends') = 1 /\ sends'[1].msg = msg
         /\ \E u \in Registered(active_connections', r) \ {excl} :
               sends'[1].ws = HandleOf(active_connections', r, u)
\* A join whose room has room for the user reaches its notification.
C18_JoinStep(q) ==
    /\ (req[q].pc = "join_push" /\ req'[q].pc \in {"fanout", "done"}) =>
          /\ C18_Started(q, req[q].room, req[q].user,
                         Joined(req[q].user, req[q].room))
          /\ UNCHANGED registry
    /\ (req[q].pc = "new" /\ req'[q].kind = "join_room"
           /\ (req'[q].pc = "fanout"
               \/ (req'[q].pc = "done" /\ req'[q].status = 200))) =>
          \A r \in Rooms, u \in Users :
             join_room(q, r, u) =>
                 C18_Started(q, r, u, Joined(u, r)) /\ UNCHANGED registry
\* A leave of a room the store holds reaches its notification: the user is
\* unregistered first, and the handle it had is sent nothing.
C18_LeaveStep(q) ==
    (/\ req[q].pc \in {"new", "leave_pull"} /\ req'[q].kind = "leave_room"
     /\ req'[q].pc \in {"fanout", "leave_refind"}) =>
        LET r == req'[q].room
            u == req'[q].user
        IN  /\ u \notin Registered(active_connections', r)
            /\ C18_Started(q, r, None, Left(u, r))
            /\ \A i \in 1..Len(sends') :
                  sends'[i].ws \notin
                     HandlesIn(active_connections) \ HandlesIn(active_connections')
\* While the notification is under way: its message and excluded user are
\* those of the request, the excluded user is sent nothing, no handle twice.
C18_Notifying(q) ==
    (req[q].pc = "fanout" /\ req[q].kind \in {"join_room", "leave_room"}) =>
        LET it == req[q].fan
        IN  /\ it.room = req[q].room
            /\ IF req[q].kind = "join_room"
               THEN it.msg = Joined(req[q].user, req[q].room)
                    /\ it.exclude = req[q].user
               ELSE it.msg = Left(req[q].user, req[q].room)
                    /\ it.exclude = None
                    /\ req[q].user \notin it.start
            /\ \A i \in 1..Len(it.sent) : it.sent[i].user # it.exclude
            /\ \A i, j \in 1..Len(it.sent) :
                  it.sent[i].ws = it.sent[j].ws => i = j
\* The notification of a join or leave that goes on to succeed is over.
C18_Ends(q) ==
    (ReqFanEnds(q) /\ req[q].kind \in {"join_room", "leave_room"}) =>
        /\ SentAll(req[q].fan)
        /\ \A i \in 1..Len(sends') : sends'[i].msg = req[q].fan.msg

\* C18: a join that succeeds broadcasts user_joined to the handles registered
\* in the room, the joining user's excepted; a leave that succeeds first
\* unregisters the leaving user and then broadcasts user_left to the handles
\* still registered, so the handle the leave unregistered is sent nothing;
\* when the request returns, every user the broadcast started with that is
\* still registered has been sent the notification, no handle twice.
C18_JoinLeaveNotifications ==
    /\ [](\A q \in Requests : C18_Notifying(q))
    /\ [][\A q \in Requests :
            C18_JoinStep(q) /\ C18_LeaveStep(q) /\ C18_Ends(q)]_vars

\* A leave has unregistered its user's connection, whose session is still
\* open, and its user_left has been sent to another member of the room.
C18_Witness ==
    \E q \in Requests, s \in Sessions :
        /\ req[q].pc = "fanout" /\ req[q].kind = "leave_room"
        /\ sess[s].pc = "receiving" /\ sess[s].room = req[q].room
        /\ sess[s].user = req[q].user
        /\ s \notin HandlesIn(active_connections)
        /\ Len(req[q].fan.sent) = 1 /\ req[q].fan.sent[1].ok

\* The session's handler has returned, or a leave has unregistered its
\* connection.
C14_Ended(s) == sess[s].pc = "closed" \/ sess[s].left
C14_Step(s) ==
    C14_Ended(s) =>
        /\ nframes' # nframes =>
              \A i \in 1..Len(sends') :
                  "src" \in DOMAIN sends'[i].msg => sends'[i].msg.src # s
        /\ (sess[s].pc = "receiving" /\ sess'[s].pc \in {"notifying", "closed"})
              => sends' = <<>> /\ UNCHANGED registry
        /\ sess[s].pc = "closed" => sess'[s] = sess[s]

\* C14: once a session is closed, by its disconnect or by a leave of its
\* (room, user), no frame received on it afterwards is sent to anyone, and
\* the session changes the registry no more and sends no notification.
C14_ClosedIsTerminal == [][\A s \in Sessions : C14_Step(s)]_vars

\* The frames session s has received and sent on are numbered in the order
\* of their receipt: a send of one of them, at any step, is of a frame at
\* least as recent as every frame of s sent before.
C15_InOrder(i) ==
    "src" \in DOMAIN sends'[i].msg =>
        LET s == sends'[i].msg.src
        IN  /\ sends'[i].msg.n >= sess[s].seq - 1
            /\ sends'[i].msg.n < sess[s].seq => sess[s].fan.room # None
            /\ sends'[i].msg.n <= sess[s].seq

\* C15: the frames one session sends reach each recipient in the order in
\* which the session sent them, whatever other senders, connects and
\* disconnects are interleaved: a frame is never sent to anyone once a
\* later frame of the same session has been sent to someone.
C15_FifoPerSender == [][\A i \in 1..Len(sends') : C15_InOrder(i)]_vars

\* The second frame of a session is delivered to a handle while another
\* session has connected and disconnected in between.
C15_Witness ==
    \E s, t \in Sessions :
        /\ Len(sends) = 1 /\ sends[1].ok
        /\ "src" \in DOMAIN sends[1].msg
        /\ sends[1].msg.src = s /\ sends[1].msg.n = 1
        /\ sess[t].pc = "closed"

\* The handles a /webrtc/* relay to to_user v in room r must reach: the one
\* registered for (r, v), if any.  The sender does not occur in it.
C21_Recipients(r, v) ==
    {sends'[i].ws : i \in 1..Len(sends')} =
        IF SlotsOf(active_connections, r, v) # {}
        THEN {HandleOf(active_connections, r, v)} ELSE {}

\* C21: an offer, answer or ICE candidate sent through the /webrtc/*
\* endpoints goes to the handle registered for to_user in the named room and
\* to no other: the handles that are sent the message are the same for
\* every from_user, connected or not.
C21_RelayByTargetOnly ==
    [][\A q \in Requests :
         (req[q].pc = "new" /\ req'[q].kind = "send_offer") =>
            \A r \in Rooms, v \in Users :
               \/ C21_Recipients(r, v)
               \/ \A ty \in TargetedTypes, u \in Users :
                     \/ Len(sends') > 0 /\ sends'[1].msg # Relayed(ty, u)
                     \/ ~send_offer(q, ty, r, u, v)]_vars

\* A relay was delivered for a from_user that has no connection at all.
C21_Witness ==
    /\ \E q \in Requests :
          req[q].pc = "done" /\ req[q].kind = "send_offer" /\ req[q].status = 200
    /\ Len(sends) = 1 /\ sends[1].ok
    /\ "from_user" \in DOMAIN sends[1].msg
    /\ \A s \in Sessions : sess[s].user # sends[1].msg.from_user

\* C22: in every reachable state the connection map and the member list
\* have the same rooms, no member list holds a user id twice, and the user
\* ids of a room's member list are the keys of its connection map.
C22_RegistryMapsAgree ==
    \A r \in Rooms :
        /\ (r \in DOMAIN active_connections) = (r \in DOMAIN room_participants)
        /\ r \in DOMAIN room_participants =>
              /\ \A u \in Users : Count(room_participants[r], u) <= 1
              /\ ListSet(room_participants[r]) = Registered(active_connections, r)

\* A leave has unregistered an open session, a later connection of the same
\* user to the room is registered, and the room's member list is that user.
C22_Witness ==
    \E s, t \in Sessions :
        /\ sess[s].left /\ sess[s].pc = "receiving"
        /\ s # t /\ sess[t].pc = "receiving"
        /\ sess[t].room = sess[s].room /\ sess[t].user = sess[s].user
        /\ sess[s].room \in DOMAIN room_participants
        /\ room_participants[sess[s].room] = <<sess[t].user>>
        /\ HandleOf(active_connections, sess[t].room, sess[t].user) = t

\* Room r2 and, in room r, every user other than u are in registry (bc, bp)
\* what they are in registry (ac, rp).
C23_OthersKept(ac, rp, bc, bp, r, u) ==
    /\ \A r2 \in Rooms \ {r} :
          /\ (r2 \in DOMAIN bc) = (r2 \in DOMAIN ac)
          /\ r2 \in DOMAIN ac => bc[r2] = ac[r2] /\ bp[r2] = rp[r2]
    /\ \A v \in Users \ {u} :
          /\ (v \in Registered(bc, r)) = (v \in Registered(ac, r))
          /\ v \in Registered(ac, r) =>
                /\ HandleOf(bc, r, v) = HandleOf(ac, r, v)
                /\ Count(bp[r], v) = Count(rp[r], v)
\* disconnect(u, r) applied to the registry as it is now.
C23_Unregister(r, u) ==
    LET m == disconnect(active_connections, room_participants, u, r)
    IN  /\ u \notin Registered(active_connections, r) =>
              m.ac = active_connections /\ m.rp = room_participants
        /\ C23_OthersKept(active_connections, room_participants, m.ac, m.rp, r, u)
\* A leave whose user has no connection in the room reaches its disconnect;
\* a step that unregisters a pair.
C23_Step ==
    /\ \A q \in Requests :
          (/\ req[q].pc \in {"new", "leave_pull"} /\ req'[q].kind = "leave_room"
           /\ req'[q].pc \in {"fanout", "leave_refind"}
           /\ req'[q].user \notin Registered(active_connections, req'[q].room))
          => UNCHANGED registry
    /\ \A r \in Rooms :
          \A u \in Registered(active_connections, r) \ Registered(active_connections', r) :
              C23_OthersKept(active_connections, room_participants,
                             active_connections', room_participants', r, u)

\* C23: unregistering a (room, user) pair that is not registered changes
\* nothing in the registry and raises nothing, and unregistering a pair of
\* room R leaves every other room and every other user of R as they were.
C23_UnregisterFrame ==
    /\ [](\A r \in Rooms, u \in Users : C23_Unregister(r, u))
    /\ [][C23_Step]_vars

\* A leave of a user without a connection ran its disconnect on a room with
\* a connected member, which was then sent user_left, while a second room
\* has a connection too.
C23_Witness ==
    \E q \in Requests :
        /\ req[q].kind = "leave_room" /\ req[q].pc = "fanout"
        /\ \A s \in Sessions : ~sess[s].left
        /\ Len(req[q].fan.sent) = 1
        /\ \E r2 \in DOMAIN active_connections : r2 # req[q].room

\* C24: a leave request answers 200 or 404 whatever other leaves of the same
\* room run beside it: the step after its second find_one, with another
\* leave having emptied and deleted the room meanwhile, does not end it
\* with an unhandled error.
C24_LeaveOkOrNotFound ==
    [][\A q \in Requests :
         (req[q].pc \in {"leave_refind", "leave_delete"} /\ req'[q].pc = "done")
            => req'[q].status \in {200, 404}]_vars

\* Session s ends on a disconnect in this step: its handler runs
\* manager.disconnect and the user_disconnected broadcast.
C25_Closes(s) ==
    /\ sess[s].pc = "receiving"
    /\ sess'[s].pc \in {"notifying", "closed"}
\* Session t is a later connection of the pair of s, open and registered.
C25_Newer(s, t) ==
    /\ t > s /\ sess[t].pc \in {"receiving", "broadcasting"}
    /\ chan[t] = "open"
    /\ sess[t].room = sess[s].room /\ sess[t].user = sess[s].user
    /\ SlotsOf(active_connections, sess[t].room, sess[t].user) # {}
    /\ HandleOf(active_connections, sess[t].room, sess[t].user) = t

\* C25: when the older of two connections of one (room, user) closes while
\* the newer one is open, the newer handle stays registered for the pair
\* and no user_disconnected notification for the user is sent.
C25_OlderCloseKeepsNewer ==
    [][\A s, t \in Sessions :
         (C25_Closes(s) /\ C25_Newer(s, t)) =>
            /\ SlotsOf(active_connections', sess[t].room, sess[t].user) # {}
            /\ HandleOf(active_connections', sess[t].room, sess[t].user) = t
            /\ \A i \in 1..Len(sends') :
                  sends'[i].msg # Disconnected(sess[s].user)]_vars

\* The handles registered in room r.
RoomHandles(ac, r) ==
    IF r \in DOMAIN ac
    THEN {ac[r].entries[i].ws : i \in 1..Len(ac[r].entries)} \ {0}
    ELSE {}
\* Handle h is registered in room r when the step's sends are made.
C26_InRoom(h, r) ==
    h \in RoomHandles(active_connections, r) \cup RoomHandles(active_connections', r)
\* The i-th send of the step stays in the room of what is sent: the room of
\* the session a frame came in on, the room a join or leave notification
\* names, the room of the session whose disconnect is announced.
C26_Send(i) ==
    LET h == sends'[i].ws
        m == sends'[i].msg
    IN  /\ "src" \in DOMAIN m => C26_InRoom(h, sess[m.src].room)
        /\ m.type \in {"user_joined", "user_left"} => C26_InRoom(h, m.room_id)
        /\ m.type = "user_disconnected" =>
              \E s \in Sessions :
                  /\ sess[s].pc \in {"receiving", "notifying"}
                  /\ sess'[s] # sess[s]
                  /\ sess[s].user = m.user_id
                  /\ C26_InRoom(h, sess[s].room)

\* C26: a frame received on a session of room R, targeted or broadcast, and
\* a join, leave or disconnect notification for R are sent only to handles
\* registered in R when they are sent; a to_user with a connection in
\* another room only is sent nothing.
C26_NoCrossRoomDelivery == [][\A i \in 1..Len(sends') : C26_Send(i)]_vars

\* A targeted frame went to its to_user's handle in the sender's room while
\* the same user has another connection, registered in a different room.
C26_Witness ==
    /\ Len(sends) = 1 /\ sends[1].ok
    /\ "src" \in DOMAIN sends[1].msg
    /\ sends[1].msg.type \in TargetedTypes
    /\ sess[sends[1].msg.src].pc = "receiving"
    /\ LET r == sess[sends[1].msg.src].room
           v == sends[1].msg.to_user
       IN  /\ sends[1].ws \in RoomHandles(active_connections, r)
           /\ \E r2 \in DOMAIN active_connections :
                 /\ r2 # r /\ v \in Registered(active_connections, r2)
                 /\ HandleOf(active_connections, r2, v) # sends[1].ws

\* C27: once a leave has announced a connected user's departure with
\* user_left, the later close of that user's connection sends no
\* user_disconnected for the same user to the members that remain.
C27_DepartureAnnouncedOnce ==
    [][\A s \in Sessions :
         (sess[s].left /\ sess[s].pc \in {"receiving", "notifying"}
            /\ sess'[s] # sess[s]) =>
            \A i \in 1..Len(sends') :
                sends'[i].msg # Disconnected(sess[s].user)]_vars

\* C28: whatever joins run concurrently, two of the same user included, no
\* user id is twice in a room's stored participant list.
C28_NoDuplicateParticipant ==
    \A r \in DOMAIN db_rooms :
        \A u \in Users : Count(db_rooms[r].participants, u) <= 1

\* The step routes: a frame is received, a suspended broadcast of a frame or
\* of a request resumes, a relay or voice-status request runs.
C29_Routes ==
    \/ nframes' # nframes
    \/ \E s \in Sessions :
          sess[s].pc = "broadcasting" /\ sess'[s].fan # sess[s].fan
             /\ sess'[s].fan.room = None
    \/ \E s \in Sessions :
          sess[s].pc = "broadcasting" /\ sess'[s].pc = "broadcasting"
             /\ sess'[s].fan.pos # sess[s].fan.pos
    \/ \E q \in Requests :
          req'[q] # req[q] /\ req'[q].kind \in {"send_offer", "update_voice_status"}
             /\ (req[q].pc = "new" \/ req'[q].pc = "done"
                 \/ req'[q].fan.pos # req[q].fan.pos)
\* Every handle that was registered before the step and was sent to in it,
\* with or without success, is registered after it, the handle of a
\* session that ends in the step excepted.
C29_RecipientsKept ==
    \A i \in 1..Len(sends') :
        LET h == sends'[i].ws
        IN  (h \in HandlesIn(active_connections)
               /\ ~(sess[h].pc = "receiving" /\ sess'[h].pc \in {"notifying", "closed"}))
            => h \in HandlesIn(active_connections')

\* C29: routing changes nothing in the registry: a step that sends a frame,
\* a relay or a broadcast leaves both maps as they were whether its sends
\* succeed or fail, and a recipient whose send fails stays registered until
\* its own session disconnects or it leaves.
C29_RoutingKeepsRegistry ==
    [][C29_Routes =>
         /\ C29_RecipientsKept
         /\ (\A s \in Sessions :
                ~(sess[s].pc = "receiving" /\ sess'[s].pc \in {"notifying", "closed"}))
              => UNCHANGED registry]_vars

====
